---- MODULE Spec2Model ----
(***************************************************************************)
(* Table reconciliation engine of the tablet bot:                          *)
(* bot/utils/scenario_applier.py (ScenarioApplier) and the table diff of   *)
(* bot/utils/table_analyzer.py (TableAnalyzer).                            *)
(* and the update conversation of bot/handlers/files.py that drives them.  *)
(*                                                                         *)
(* A table (pandas DataFrame with the default RangeIndex) is a record      *)
(*   [columns : sequence of column names, rows : sequence of rows]         *)
(* where a row is a function from the table's columns to cells.            *)
(* A cell is an integer: 0 is the missing value (None / NaN), n > 0 is the *)
(* number n, and n < 0 is a text that is no number (int() of it raises).   *)
(* The column the code spells in Cyrillic (U+0418 U+043C U+044F) is        *)
(* written "Imya" here, and the third preferred column "Familiya".         *)
(***************************************************************************)
EXTENDS Integers, Sequences, FiniteSets, TLC

VARIABLES old_df, new_df, hashseed, request, result, first, analysis, pc,
          fsm_state, state_data, temp_file, table_info, event

vars == <<old_df, new_df, hashseed, request, result, first, analysis, pc,
          fsm_state, state_data, temp_file, table_info, event>>

\* the variables of the update conversation of bot/handlers/files.py
conversation == <<fsm_state, state_data, temp_file, table_info, event>>

(***************************************************************************)
(* Bounds of the checked instance.                                         *)
(***************************************************************************)
MaxOldRows == 1
MaxNewRows == 2
MaxId == 2
MaxSeed == 1
MaxAppendRows == 3

ColumnUniverse == <<"id", "Imya", "age", "name">>
OldColumnSets == SUBSET {"id", "Imya"}
NewColumnSets == SUBSET {"id", "Imya", "age"}

NULL == 0
TextX == -1
TextY == -2
TextA == -3
TextB == -4
TextA2 == -5
TextC == -6

KeyCol == "id"
NameCol == "Imya"
preferred_order == <<"id", "Imya", "Familiya">>

(***************************************************************************)
(* Generic helpers.                                                        *)
(***************************************************************************)
Range(s) == {s[i] : i \in DOMAIN s}

Cols(df) == Range(df.columns)

notna(v) == v # NULL

RECURSIVE SortBy(_, _)
\* the elements of the finite set S as a sequence, ascending by key[_]
SortBy(S, key) ==
  IF S = {} THEN <<>>
  ELSE LET m == CHOOSE x \in S : \A y \in S : key[x] <= key[y]
       IN <<m>> \o SortBy(S \ {m}, key)

Index(seq, x) == CHOOSE i \in DOMAIN seq : seq[i] = x

\* hash of a column name under the interpreter's per-process hash seed: a
\* seed fixes one order of the names; different seeds give different orders
StrHash(seed, c) ==
  LET n == Len(ColumnUniverse)
      i == Index(ColumnUniverse, c)
  IN IF seed % 2 = 0 THEN (i - 1 + (seed \div 2)) % n
     ELSE (n - i + (seed \div 2)) % n

\* list(set_of_column_names): iteration in hash-slot order
SetToList(S, seed) == SortBy(S, [c \in S |-> StrHash(seed, c)])

\* iteration over a set of small non-negative ints: ascending (hash(n) = n)
IntSetToList(S) == SortBy(S, [n \in S |-> n])

\* df[col].dropna().astype(int) raises ValueError on a text cell
AstypeIntRaises(df, col) == \E i \in DOMAIN df.rows : df.rows[i][col] < 0

\* set(df[col].dropna().astype(int))
IdSet(df, col) == {df.rows[i][col] : i \in {j \in DOMAIN df.rows : notna(df.rows[j][col])}}

\* new_df[new_df['id'] == row_id]: positions of the matching rows, in order
MatchingRows(df, row_id) == {i \in DOMAIN df.rows : df.rows[i][KeyCol] = row_id}

Min(S) == CHOOSE x \in S : \A y \in S : x <= y
Max(S) == CHOOSE x \in S : \A y \in S : x >= y

(***************************************************************************)
(* Return values: the table handed back, whether it is the caller's old_df *)
(* object itself or a fresh DataFrame, and the summary message.            *)
(***************************************************************************)
Msg(kind, n, m) == [kind |-> kind, n |-> n, m |-> m, prefix |-> "", arg |-> ""]

Fresh(df, message) == [ref |-> "result_df", df |-> df, message |-> message]

\* except Exception as e: return old_df, "error ..."
ErrorReturn(old) == [ref |-> "old_df", df |-> old, message |-> Msg("error", 0, 0)]

NoTable == [columns |-> <<>>, rows |-> <<>>]
NoResult == [ref |-> "none", df |-> NoTable, message |-> Msg("none", 0, 0)]
NoRequest == [scenario |-> "none", conflict_rule |-> "none"]
NoCall == [request |-> NoRequest, result |-> NoResult]

\* FSM data after state.clear(): no key is stored
NoStateData == [table_to_update |-> "none", temp_file_path |-> "none",
                selected_scenario |-> "none", conflict_rule |-> "none"]
\* table_manager.get_table(table_id) is None
NoTableInfo == [stored |-> FALSE, columns |-> <<>>, rows_count |-> 0]
NoEvent == [handler |-> "none", data |-> "none"]

\* no update conversation is going on
NoConversation ==
  /\ fsm_state = "none"
  /\ state_data = NoStateData
  /\ temp_file = FALSE
  /\ table_info = NoTableInfo
  /\ event = NoEvent

\* new_row_ids taken as all the ids of the new table
NewRowIds_all(old_ids, new_ids) == new_ids

\* new_row_ids = new_ids - old_ids
NewRowIds(old_ids, new_ids) == new_ids \ old_ids

\* the copy taken after dropping the rows that hold a missing value
CopyRows_dropna(old, columns) ==
  LET kept == SelectSeq(old.rows, LAMBDA r : \A c \in DOMAIN r : notna(r[c]))
  IN [i \in DOMAIN kept |->
        [c \in columns |-> IF c \in Cols(old) THEN kept[i][c] ELSE NULL]]

\* the copy taken without the columns that only the new table has
CopyRows_oldcols(old, columns) ==
  [i \in DOMAIN old.rows |-> [c \in Cols(old) |-> old.rows[i][c]]]

\* result_df = old_df.copy(), widened to `columns` with None in the new ones
CopyRows(old, columns) ==
  [i \in DOMAIN old.rows |->
     [c \in columns |-> IF c \in Cols(old) THEN old.rows[i][c] ELSE NULL]]

\* rule C keeping a non-null old name instead of taking the new one
ResolveName_merge(old_value, new_value, conflict_rule) ==
  IF conflict_rule = "B" THEN new_value
  ELSE IF conflict_rule = "C" THEN (IF notna(old_value) THEN old_value ELSE new_value)
  ELSE old_value

\* the 'Imya' assignment of the conflict rule: branches B and C
ResolveName(old_value, new_value, conflict_rule) ==
  IF conflict_rule = "B" THEN new_value
  ELSE IF conflict_rule = "C" THEN new_value
  ELSE old_value

(***************************************************************************)
(* Scenario 1: keep the structure, append rows.                            *)
(***************************************************************************)
\* name_mapping: id -> 'Imya' of the last new row that has both non-null
name_mapping(new) ==
  LET has(k) == {i \in DOMAIN new.rows : new.rows[i][KeyCol] = k /\ notna(new.rows[i][NameCol])}
      keys == {k \in IdSet(new, KeyCol) : has(k) # {}}
  IN [k \in keys |-> new.rows[Max(has(k))][NameCol]]

\* the update loop over result_df.index of apply_scenario_1
UpdateNames1(rows, mapping, conflict_rule) ==
  [i \in DOMAIN rows |->
     IF notna(rows[i][KeyCol]) /\ rows[i][KeyCol] \in DOMAIN mapping
       THEN [rows[i] EXCEPT ![NameCol] = ResolveName(@, mapping[rows[i][KeyCol]], conflict_rule)]
       ELSE rows[i]]

\* new_df[new_df['id'].isin(new_row_ids)][common_columns], as concat aligns it
\* to the columns of result_df
NewRows1(old, new, new_row_ids, common_columns) ==
  LET picked == SelectSeq(new.rows, LAMBDA r : r[KeyCol] \in new_row_ids)
  IN [i \in DOMAIN picked |->
        [c \in Cols(old) |-> IF c \in common_columns THEN picked[i][c] ELSE NULL]]

apply_scenario_1(old, new, conflict_rule, seed) ==
  LET common_columns == Cols(old) \cap Cols(new)
  IN IF common_columns # {} /\ KeyCol \in common_columns
       THEN IF AstypeIntRaises(old, KeyCol) \/ AstypeIntRaises(new, KeyCol)
              THEN ErrorReturn(old)
              ELSE LET old_ids == IdSet(old, KeyCol)
                       new_ids == IdSet(new, KeyCol)
                       new_row_ids == NewRowIds(old_ids, new_ids)
                       new_rows_df == NewRows1(old, new, new_row_ids, common_columns)
                       concat == old.rows \o new_rows_df
                       common_row_ids == old_ids \cap new_ids
                   IN IF new_row_ids # {}
                        THEN Fresh([columns |-> old.columns,
                                    rows |-> IF common_row_ids # {} /\ conflict_rule # "A"
                                                  /\ NameCol \in common_columns
                                               THEN UpdateNames1(concat, name_mapping(new), conflict_rule)
                                               ELSE concat],
                                   Msg("added_rows", Len(new_rows_df), 0))
                        ELSE Fresh(old, Msg("no_new_rows", 0, 0))
       ELSE Fresh(old, Msg("no_common_columns", 0, 0))

(***************************************************************************)
(* Scenario 2: extend the structure, keep the rows.                        *)
(***************************************************************************)
\* the loop body taking the last matching row instead of the first
FillRow2_last(r, new, new_columns, common_columns, conflict_rule) ==
  IF ~notna(r[KeyCol]) THEN r
  ELSE LET matching_rows == MatchingRows(new, r[KeyCol])
       IN IF matching_rows = {} THEN r
          ELSE LET matching_row == new.rows[Max(matching_rows)]
               IN [c \in DOMAIN r |->
                     IF c \in Range(new_columns)
                       THEN (IF notna(matching_row[c]) THEN matching_row[c] ELSE r[c])
                     ELSE IF c = NameCol /\ NameCol \in common_columns
                             /\ conflict_rule # "A" /\ notna(matching_row[NameCol])
                       THEN ResolveName(r[c], matching_row[NameCol], conflict_rule)
                     ELSE r[c]]

\* one pass of the loop body of apply_scenario_2 over result row r
FillRow2(r, new, new_columns, common_columns, conflict_rule) ==
  IF ~notna(r[KeyCol]) THEN r
  ELSE LET matching_rows == MatchingRows(new, r[KeyCol])
       IN IF matching_rows = {} THEN r
          ELSE LET matching_row == new.rows[Min(matching_rows)]
               IN [c \in DOMAIN r |->
                     IF c \in Range(new_columns)
                       THEN (IF notna(matching_row[c]) THEN matching_row[c] ELSE r[c])
                     ELSE IF c = NameCol /\ NameCol \in common_columns
                             /\ conflict_rule # "A" /\ notna(matching_row[NameCol])
                       THEN ResolveName(r[c], matching_row[NameCol], conflict_rule)
                     ELSE r[c]]

apply_scenario_2(old, new, conflict_rule, seed) ==
  LET new_columns == SetToList(Cols(new) \ Cols(old), seed)
      columns == old.columns \o new_columns
      copy == CopyRows(old, Range(columns))
      common_columns == Cols(old) \cap Cols(new)
  IN IF KeyCol \in common_columns
       THEN IF \E i \in DOMAIN old.rows : old.rows[i][KeyCol] < 0
              THEN ErrorReturn(old)
              ELSE Fresh([columns |-> columns,
                          rows |-> [i \in DOMAIN copy |->
                                      FillRow2(copy[i], new, new_columns, common_columns, conflict_rule)]],
                         Msg("added_columns", Len(new_columns), 0))
       ELSE Fresh([columns |-> columns, rows |-> copy],
                  Msg("added_columns", Len(new_columns), 0))

(***************************************************************************)
(* Scenario 3: full merge.                                                 *)
(***************************************************************************)
\* the update of one existing row from its first matching new row
UpdateRow3(r, new, conflict_rule) ==
  IF ~notna(r[KeyCol]) THEN r
  ELSE LET matching_rows == MatchingRows(new, r[KeyCol])
       IN IF matching_rows = {} THEN r
          ELSE LET matching_row == new.rows[Min(matching_rows)]
               IN [c \in DOMAIN r |->
                     IF c \in Cols(new) /\ notna(matching_row[c])
                       THEN IF c = NameCol /\ conflict_rule # "A"
                              THEN ResolveName(r[c], matching_row[c], conflict_rule)
                              ELSE matching_row[c]
                       ELSE r[c]]

\* new_rows_data: one row per id of new_row_ids, from its first matching row
NewRows3(new, new_row_ids, all_columns) ==
  LET ids == IntSetToList(new_row_ids)
  IN [k \in DOMAIN ids |->
        LET matching_row == new.rows[Min(MatchingRows(new, ids[k]))]
        IN [c \in all_columns |->
              IF c \in Cols(new) /\ notna(matching_row[c]) THEN matching_row[c] ELSE NULL]]

\* preferred_order restricted to the columns of result_df
OrderColumns(all_columns) ==
  SelectSeq(preferred_order, LAMBDA c : c \in Range(all_columns))
    \o SelectSeq(all_columns, LAMBDA c : c \notin Range(preferred_order))

apply_scenario_3(old, new, conflict_rule, seed) ==
  LET all_columns == SetToList(Cols(old) \cup Cols(new), seed)
      base == CopyRows(old, Range(all_columns))
      common_columns == Cols(old) \cap Cols(new)
      columns == OrderColumns(all_columns)
      message(rows) == Msg("full_merge", Len(rows), Len(columns))
  IN IF common_columns # {} /\ KeyCol \in common_columns
       THEN IF AstypeIntRaises(old, KeyCol) \/ AstypeIntRaises(new, KeyCol)
              THEN ErrorReturn(old)
              ELSE LET old_ids == IdSet(old, KeyCol)
                       new_ids == IdSet(new, KeyCol)
                       updated == [i \in DOMAIN base |-> UpdateRow3(base[i], new, conflict_rule)]
                       new_row_ids == NewRowIds(old_ids, new_ids)
                       rows == updated \o NewRows3(new, new_row_ids, Range(all_columns))
                   IN Fresh([columns |-> columns, rows |-> rows], message(rows))
       ELSE Fresh([columns |-> columns, rows |-> base], message(base))

(***************************************************************************)
(* Scenario 4: automatic choice.                                           *)
(***************************************************************************)
added_cols(old, new) == Cardinality(Cols(new) \ Cols(old))

added_rows(old, new) ==
  IF KeyCol \in Cols(old) /\ KeyCol \in Cols(new)
    THEN Cardinality(NewRowIds(IdSet(old, KeyCol), IdSet(new, KeyCol)))
    ELSE Len(new.rows)

\* the heuristic with >= in place of > in its second test
Choice4_ge(cols, rows) ==
  IF cols >= 2 /\ rows >= 2 THEN "3"
  ELSE IF cols >= rows THEN "2"
  ELSE "1"

\* the heuristic of apply_scenario_4: which scenario it hands the tables to
Choice4(cols, rows) ==
  IF cols >= 2 /\ rows >= 2 THEN "3"
  ELSE IF cols > rows THEN "2"
  ELSE "1"

WithPrefix(ret, prefix) == [ret EXCEPT !.message.prefix = prefix]

\* scenario 4 handing the tables on without converting the ids itself
apply_scenario_4_unchecked(old, new, conflict_rule, seed) ==
  LET choice == Choice4(added_cols(old, new), added_rows(old, new))
  IN IF choice = "3"
       THEN WithPrefix(apply_scenario_3(old, new, conflict_rule, seed), "smart_full")
     ELSE IF choice = "2"
       THEN WithPrefix(apply_scenario_2(old, new, conflict_rule, seed), "smart_extend")
     ELSE WithPrefix(apply_scenario_1(old, new, conflict_rule, seed), "smart_append")

apply_scenario_4(old, new, conflict_rule, seed) ==
  IF KeyCol \in Cols(old) /\ KeyCol \in Cols(new)
       /\ (AstypeIntRaises(old, KeyCol) \/ AstypeIntRaises(new, KeyCol))
    THEN ErrorReturn(old)
    ELSE LET choice == Choice4(added_cols(old, new), added_rows(old, new))
         IN IF choice = "3"
              THEN WithPrefix(apply_scenario_3(old, new, conflict_rule, seed), "smart_full")
            ELSE IF choice = "2"
              THEN WithPrefix(apply_scenario_2(old, new, conflict_rule, seed), "smart_extend")
            ELSE WithPrefix(apply_scenario_1(old, new, conflict_rule, seed), "smart_append")

(***************************************************************************)
(* Dispatcher.                                                             *)
(***************************************************************************)
\* the dispatcher with the smart merge as the default branch
apply_scenario_default(scenario, old, new, conflict_rule, seed) ==
  IF scenario = "1" THEN apply_scenario_1(old, new, conflict_rule, seed)
  ELSE IF scenario = "2" THEN apply_scenario_2(old, new, conflict_rule, seed)
  ELSE IF scenario = "3" THEN apply_scenario_3(old, new, conflict_rule, seed)
  ELSE apply_scenario_4(old, new, conflict_rule, seed)

apply_scenario(scenario, old, new, conflict_rule, seed) ==
  IF scenario = "1" THEN apply_scenario_1(old, new, conflict_rule, seed)
  ELSE IF scenario = "2" THEN apply_scenario_2(old, new, conflict_rule, seed)
  ELSE IF scenario = "3" THEN apply_scenario_3(old, new, conflict_rule, seed)
  ELSE IF scenario = "4" THEN apply_scenario_4(old, new, conflict_rule, seed)
  ELSE [ref |-> "old_df", df |-> old,
        message |-> [Msg("unknown_scenario", 0, 0) EXCEPT !.arg = scenario]]

(***************************************************************************)
(* Table diff: bot/utils/table_analyzer.py (TableAnalyzer).                *)
(***************************************************************************)
\* the string of a text cell
TextStr(v) ==
  CASE v = TextX -> "X" [] v = TextY -> "Y" [] v = TextA -> "A"
    [] v = TextB -> "B" [] v = TextA2 -> "A2" [] v = TextC -> "C"

\* dtype of a column as the reader infers it: float64 when the column holds
\* a missing value next to numbers only
IsFloatColumn(df, c) ==
  /\ \E i \in DOMAIN df.rows : df.rows[i][c] = NULL
  /\ \A i \in DOMAIN df.rows : df.rows[i][c] >= 0

\* astype(str) / str(value) of the cell v of column c: NaN gives 'nan', a
\* number of a float64 column gives '12.0', of an int64 column '12'
CellStr(df, c, v) ==
  IF v = NULL THEN "nan"
  ELSE IF v < 0 THEN TextStr(v)
  ELSE IF IsFloatColumn(df, c) THEN ToString(v) \o ".0"
  ELSE ToString(v)

RECURSIVE SumStr(_, _, _)
\* .sum(axis=1) of the string cells of row r: concatenation in column order
SumStr(df, r, columns) ==
  IF columns = <<>> THEN ""
  ELSE CellStr(df, Head(columns), r[Head(columns)]) \o SumStr(df, r, Tail(columns))

\* hash(s) of a row string: fixed by the process's hash seed, and taken as
\* collision-free on the strings of one run
Hash(seed, s) == <<seed, s>>

\* the rows identified by their first cell alone instead of the whole row
RowHashes_key(df, seed) ==
  {Hash(seed, SumStr(df, df.rows[i], SubSeq(df.columns, 1, 1))) : i \in DOMAIN df.rows}

\* set(df.astype(str).sum(axis=1).apply(hash))
RowHashes(df, seed) ==
  {Hash(seed, SumStr(df, df.rows[i], df.columns)) : i \in DOMAIN df.rows}

\* the entry appended only when both values are present and differ
ChangeAt_values(old, new, idx, col) ==
  LET old_val == old.rows[idx + 1][col]
      new_val == new.rows[idx + 1][col]
  IN IF notna(old_val) /\ notna(new_val) /\ old_val # new_val
       THEN <<[row_index |-> idx, column |-> col,
               old_value |-> CellStr(old, col, old_val),
               new_value |-> CellStr(new, col, new_val)]>>
       ELSE <<>>

\* the entry appended (if any) for row position idx and column col
ChangeAt(old, new, idx, col) ==
  LET old_val == old.rows[idx + 1][col]
      new_val == new.rows[idx + 1][col]
      entry(o, n) == <<[row_index |-> idx, column |-> col, old_value |-> o, new_value |-> n]>>
  IN IF notna(old_val) /\ notna(new_val) /\ old_val # new_val
       THEN entry(CellStr(old, col, old_val), CellStr(new, col, new_val))
     ELSE IF ~notna(old_val) /\ notna(new_val)
       THEN entry("NULL", CellStr(new, col, new_val))
     ELSE IF notna(old_val) /\ ~notna(new_val)
       THEN entry(CellStr(old, col, old_val), "NULL")
     ELSE <<>>

RECURSIVE ChangesInRow(_, _, _, _)
\* for col in common_columns: ...
ChangesInRow(old, new, idx, columns) ==
  IF columns = <<>> THEN <<>>
  ELSE ChangeAt(old, new, idx, Head(columns)) \o ChangesInRow(old, new, idx, Tail(columns))

RECURSIVE ChangedData(_, _, _, _, _)
\* for idx in range(idx, n): ...
ChangedData(old, new, common_columns, idx, n) ==
  IF idx >= n THEN <<>>
  ELSE ChangesInRow(old, new, idx, common_columns)
         \o ChangedData(old, new, common_columns, idx + 1, n)

\* added_columns left empty when the old table has no column
AddedColumns_nonempty(old_columns, new_columns, seed) ==
  IF old_columns = {} THEN <<>> ELSE SetToList(new_columns \ old_columns, seed)

\* added_columns taken as the columns of the new table
AddedColumns_all(old_columns, new_columns, seed) == SetToList(new_columns, seed)

\* added_columns = list(new_columns - old_columns)
AddedColumns(old_columns, new_columns, seed) == SetToList(new_columns \ old_columns, seed)

\* removed_columns taken as the columns of the old table
RemovedColumns_all(old_columns, new_columns, seed) == SetToList(old_columns, seed)

\* removed_columns = list(old_columns - new_columns)
RemovedColumns(old_columns, new_columns, seed) == SetToList(old_columns \ new_columns, seed)

\* common_columns = list(old_columns & new_columns)
CommonColumns(old_columns, new_columns, seed) == SetToList(old_columns \cap new_columns, seed)

analyze_tables_diff(old, new, seed) ==
  LET old_columns == Cols(old)
      new_columns == Cols(new)
      added_columns == AddedColumns(old_columns, new_columns, seed)
      removed_columns == RemovedColumns(old_columns, new_columns, seed)
      common_columns == CommonColumns(old_columns, new_columns, seed)
      old_hashes == RowHashes(old, seed)
      new_hashes == RowHashes(new, seed)
      added_rows_count == Cardinality(new_hashes \ old_hashes)
      removed_rows_count == Cardinality(old_hashes \ new_hashes)
      common_rows_count == Cardinality(old_hashes \cap new_hashes)
      changed_data == IF common_columns # <<>>
                        THEN ChangedData(old, new, common_columns, 0,
                                         IF Len(old.rows) < Len(new.rows)
                                           THEN Len(old.rows) ELSE Len(new.rows))
                        ELSE <<>>
  IN [columns |-> [added |-> added_columns,
                   removed |-> removed_columns,
                   common |-> common_columns,
                   total_old |-> Cardinality(old_columns),
                   total_new |-> Cardinality(new_columns)],
      rows |-> [added |-> added_rows_count,
                removed |-> removed_rows_count,
                common |-> common_rows_count,
                total_old |-> Len(old.rows),
                total_new |-> Len(new.rows)],
      changes |-> changed_data,
      summary |-> [has_changes |-> \/ Len(added_columns) > 0
                                   \/ Len(removed_columns) > 0
                                   \/ added_rows_count > 0
                                   \/ removed_rows_count > 0
                                   \/ Len(changed_data) > 0]]

\* no report yet
NoAnalysis ==
  [columns |-> [added |-> <<>>, removed |-> <<>>, common |-> <<>>, total_old |-> 0, total_new |-> 0],
   rows |-> [added |-> 0, removed |-> 0, common |-> 0, total_old |-> 0, total_new |-> 0],
   changes |-> <<>>,
   summary |-> [has_changes |-> FALSE]]

(***************************************************************************)
(* Inputs.                                                                 *)
(***************************************************************************)
IdValues == {NULL, TextX} \cup (1 .. MaxId)

CellValues(c, text) == IF c = KeyCol THEN IdValues ELSE {NULL, text}

RowsOver(S, text) == {r \in [S -> IdValues \cup {text}] : \A c \in S : r[c] \in CellValues(c, text)}

ColumnList(S) == SelectSeq(ColumnUniverse, LAMBDA c : c \in S)

TablesOver(S, maxRows, text) ==
  {[columns |-> ColumnList(S), rows |-> rows] :
     rows \in UNION {[1 .. n -> RowsOver(S, text)] : n \in 0 .. (IF S = {} THEN 0 ELSE maxRows)}}

OldTables == UNION {TablesOver(S, MaxOldRows, TextX) : S \in OldColumnSets}
NewTables == UNION {TablesOver(S, MaxNewRows, TextY) : S \in NewColumnSets}

Scenarios == {"1", "2", "3", "4", "5"}
ConflictRules == {"A", "B", "C", "D"}
Seeds == 0 .. MaxSeed

(***************************************************************************)
(* State machine: a caller loads the two tables and calls apply_scenario;  *)
(* the process may be restarted and the same request issued again.         *)
(***************************************************************************)
Init ==
  /\ old_df \in OldTables
  /\ new_df \in NewTables
  /\ hashseed \in Seeds
  /\ request = NoRequest
  /\ result = NoResult
  /\ first = NoCall
  /\ analysis = NoAnalysis
  /\ NoConversation
  /\ pc = "ready"

Call(scenario, conflict_rule) ==
  /\ pc = "ready"
  /\ first = NoCall
  /\ request' = [scenario |-> scenario, conflict_rule |-> conflict_rule]
  /\ result' = apply_scenario(scenario, old_df, new_df, conflict_rule, hashseed)
  /\ pc' = "returned"
  /\ UNCHANGED <<old_df, new_df, hashseed, first, analysis, conversation>>

Restart ==
  /\ pc = "returned"
  /\ first = NoCall
  /\ first' = [request |-> request, result |-> result]
  /\ hashseed' \in Seeds
  /\ request' = NoRequest
  /\ result' = NoResult
  /\ pc' = "ready"
  /\ UNCHANGED <<old_df, new_df, analysis, conversation>>

CallAgain ==
  /\ pc = "ready"
  /\ first # NoCall
  /\ request' = first.request
  /\ result' = apply_scenario(first.request.scenario, old_df, new_df,
                              first.request.conflict_rule, hashseed)
  /\ pc' = "returned"
  /\ UNCHANGED <<old_df, new_df, hashseed, first, analysis, conversation>>

\* one call of the engine on freshly loaded tables
Next == \E scenario \in Scenarios, conflict_rule \in ConflictRules : Call(scenario, conflict_rule)

Spec == Init /\ [][Next]_vars

\* the same, followed by a restart of the bot and the same request again
NextRerun ==
  \/ \E scenario \in Scenarios, conflict_rule \in ConflictRules : Call(scenario, conflict_rule)
  \/ Restart
  \/ CallAgain

SpecRerun == Init /\ [][NextRerun]_vars

(***************************************************************************)
(* The same call of scenario 1 on new tables of up to MaxAppendRows rows   *)
(* over the key and the name column: room for a matched key next to an     *)
(* unmatched key that occurs twice.                                        *)
(***************************************************************************)
AppendNewTables == TablesOver({KeyCol, NameCol}, MaxAppendRows, TextY)

InitAppend ==
  /\ old_df \in OldTables
  /\ new_df \in AppendNewTables
  /\ hashseed \in Seeds
  /\ request = NoRequest
  /\ result = NoResult
  /\ first = NoCall
  /\ analysis = NoAnalysis
  /\ NoConversation
  /\ pc = "ready"

NextAppend == \E conflict_rule \in ConflictRules : Call("1", conflict_rule)

SpecAppend == InitAppend /\ [][NextAppend]_vars

(***************************************************************************)
(* The call of scenario 3 on two tables that share, next to the key, a     *)
(* column that is not the name column.                                     *)
(***************************************************************************)
SharedColumnSets == {{KeyCol, "age"}, {KeyCol, NameCol, "age"}}

SharedOldTables == UNION {TablesOver(S, MaxOldRows, TextX) : S \in SharedColumnSets}
SharedNewTables == UNION {TablesOver(S, MaxNewRows, TextY) : S \in SharedColumnSets}

InitShared ==
  /\ old_df \in SharedOldTables
  /\ new_df \in SharedNewTables
  /\ hashseed \in Seeds
  /\ request = NoRequest
  /\ result = NoResult
  /\ first = NoCall
  /\ analysis = NoAnalysis
  /\ NoConversation
  /\ pc = "ready"

NextShared == \E conflict_rule \in ConflictRules : Call("3", conflict_rule)

SpecShared == InitShared /\ [][NextShared]_vars

(***************************************************************************)
(* State machine of the diff: the update handler reads the stored table    *)
(* and the uploaded one and calls analyze_tables_diff on them.             *)
(***************************************************************************)
\* cells of the tables compared
DiffValues(c) ==
  IF c = "id" THEN {NULL, 1, 12}
  ELSE IF c = "name" THEN {NULL, 3, 23}
  ELSE {NULL, 30}

DiffOldColumnLists == {<<>>, <<"id">>, <<"id", "name">>, <<"name", "id">>}
DiffNewColumnLists ==
  {<<>>, <<"id">>, <<"id", "age">>, <<"id", "name">>, <<"id", "name", "age">>}

DiffRowsOver(columns) ==
  {r \in [Range(columns) -> UNION {DiffValues(c) : c \in Range(columns)}] :
     \A c \in Range(columns) : r[c] \in DiffValues(c)}

DiffTablesOver(columns, maxRows) ==
  {[columns |-> columns, rows |-> rows] :
     rows \in UNION {[1 .. n -> DiffRowsOver(columns)] :
                       n \in 0 .. (IF columns = <<>> THEN 0 ELSE maxRows)}}

DiffOldTables == UNION {DiffTablesOver(columns, MaxOldRows) : columns \in DiffOldColumnLists}
DiffNewTables == UNION {DiffTablesOver(columns, MaxNewRows) : columns \in DiffNewColumnLists}

\* the two tables of the worked example: (1,'A'), (2,'B') against
\* (1,'A2',30), (3,'C',40)
ExampleOld ==
  [columns |-> <<"id", "name">>,
   rows |-> <<[id |-> 1, name |-> TextA], [id |-> 2, name |-> TextB]>>]
ExampleNew ==
  [columns |-> <<"id", "name", "age">>,
   rows |-> <<[id |-> 1, name |-> TextA2, age |-> 30],
              [id |-> 3, name |-> TextC, age |-> 40]>>]

InitDiff ==
  /\ \/ old_df \in DiffOldTables /\ new_df \in DiffNewTables
     \/ old_df = ExampleOld /\ new_df = ExampleNew
  /\ hashseed \in Seeds
  /\ request = NoRequest
  /\ result = NoResult
  /\ first = NoCall
  /\ analysis = NoAnalysis
  /\ NoConversation
  /\ pc = "ready"

Analyze ==
  /\ pc = "ready"
  /\ analysis' = analyze_tables_diff(old_df, new_df, hashseed)
  /\ pc' = "analyzed"
  /\ UNCHANGED <<old_df, new_df, hashseed, request, result, first, conversation>>

NextDiff == Analyze

SpecDiff == InitDiff /\ [][NextDiff]_vars

(***************************************************************************)
(* Properties.                                                             *)
(***************************************************************************)
(***************************************************************************)
(* Update conversation of bot/handlers/files.py (UpdateScenarioStates).    *)
(* One user updates one stored table.  fsm_state and state_data are the    *)
(* FSM context of the user, old_df the content of the stored table file,   *)
(* table_info its TableInfo (file_size follows the file and is not kept),  *)
(* new_df the content of the temporary file temp_update_<user>_<name> and  *)
(* temp_file its existence, analysis the analysis kept in the FSM data,    *)
(* result the last return of apply_scenario, event the last handler run.   *)
(* A handler runs as one step; `sent` is whether its Telegram reply went   *)
(* through (edit_text / answer raise otherwise).                           *)
(***************************************************************************)
MaxStoredRows == 2

TableId == "t1"
TempPath == "temp_update_1_new.xlsx"

UpdateScenarios == {"1", "2", "3", "4"}
UpdateRules == {"A", "B", "C"}

\* the stored table when the conversation starts, and the files uploaded
UpdateStoredTables ==
  {[columns |-> <<KeyCol, NameCol>>, rows |-> <<>>],
   [columns |-> <<KeyCol, NameCol>>, rows |-> <<[id |-> 1, Imya |-> TextX]>>]}
UpdateUploads ==
  {[columns |-> <<KeyCol, NameCol>>, rows |-> <<[id |-> 1, Imya |-> TextY]>>],
   [columns |-> <<KeyCol, NameCol>>, rows |-> <<[id |-> 2, Imya |-> TextY]>>],
   [columns |-> <<KeyCol, "age">>, rows |-> <<[id |-> 2, age |-> TextY]>>]}

TableInfoOf(df) == [stored |-> TRUE, columns |-> df.columns, rows_count |-> Len(df.rows)]

Event(handler, data) == [handler |-> handler, data |-> data]

InitUpdate ==
  /\ old_df \in UpdateStoredTables
  /\ new_df = NoTable
  /\ hashseed \in Seeds
  /\ request = NoRequest
  /\ result = NoResult
  /\ first = NoCall
  /\ analysis = NoAnalysis
  /\ pc = "ready"
  /\ fsm_state = "none"
  /\ state_data = NoStateData
  /\ temp_file = FALSE
  /\ table_info = TableInfoOf(old_df)
  /\ event = NoEvent

\* await state.clear(): the state and all the FSM data are dropped
state_clear ==
  /\ fsm_state' = "none"
  /\ state_data' = NoStateData
  /\ analysis' = NoAnalysis

\* a handler that only answers
state_kept == UNCHANGED <<fsm_state, state_data, analysis>>

process_update_callback ==
  /\ event' = Event("process_update_callback", "update_t1")
  /\ IF table_info.stored
       THEN /\ state_data' = [state_data EXCEPT !.table_to_update = TableId]
            /\ fsm_state' = "waiting_update_file"
       ELSE UNCHANGED <<fsm_state, state_data>>
  /\ UNCHANGED <<old_df, new_df, hashseed, request, result, first, analysis, pc,
                 temp_file, table_info>>

process_update_file_analysis(extension_ok, readable, df, sent) ==
  /\ fsm_state = "waiting_update_file"
  /\ Len(old_df.rows) + Len(df.rows) <= MaxStoredRows
  /\ event' = Event("process_update_file_analysis", "document")
  /\ IF state_data.table_to_update = "none"
       THEN state_clear /\ UNCHANGED <<new_df, temp_file>>
       ELSE IF ~extension_ok
       THEN state_kept /\ UNCHANGED <<new_df, temp_file>>
       ELSE /\ temp_file' = TRUE
            /\ new_df' = IF readable THEN df ELSE NoTable
            /\ IF table_info.stored /\ readable /\ sent
                 THEN /\ analysis' = analyze_tables_diff(old_df, df, hashseed)
                      /\ state_data' = [state_data EXCEPT !.temp_file_path = TempPath]
                      /\ fsm_state' = "waiting_scenario_selection"
                 ELSE state_clear
  /\ UNCHANGED <<old_df, hashseed, request, result, first, pc, table_info>>

\* the state and the preview show_preview_and_confirm leaves, given the FSM
\* data it reads
show_preview_and_confirm(data, sent) ==
  IF table_info.stored /\ sent
    THEN /\ result' = apply_scenario(data.selected_scenario, old_df, new_df,
                                     IF data.conflict_rule = "none" THEN "A" ELSE data.conflict_rule,
                                     hashseed)
         /\ fsm_state' = "waiting_update_confirmation"
    ELSE UNCHANGED <<result, fsm_state>>

\* process_scenario_selection, had scenario 4 kept the conflict rule already
\* in the FSM data
process_scenario_selection_keep(scenario, sent) ==
  /\ fsm_state = "waiting_scenario_selection"
  /\ event' = Event("process_scenario_selection", scenario)
  /\ state_data' = [state_data EXCEPT !.selected_scenario = scenario]
  /\ IF scenario = "4"
       THEN show_preview_and_confirm(state_data', sent)
       ELSE /\ fsm_state' = IF sent THEN "waiting_conflict_resolution" ELSE fsm_state
            /\ UNCHANGED result
  /\ UNCHANGED <<old_df, new_df, hashseed, request, first, analysis, pc,
                 temp_file, table_info>>

process_scenario_selection(scenario, sent) ==
  /\ fsm_state = "waiting_scenario_selection"
  /\ event' = Event("process_scenario_selection", scenario)
  /\ IF scenario = "4"
       THEN /\ state_data' = [state_data EXCEPT !.selected_scenario = scenario,
                                                !.conflict_rule = "A"]
            /\ show_preview_and_confirm(state_data', sent)
       ELSE /\ state_data' = [state_data EXCEPT !.selected_scenario = scenario]
            /\ fsm_state' = IF sent THEN "waiting_conflict_resolution" ELSE fsm_state
            /\ UNCHANGED result
  /\ UNCHANGED <<old_df, new_df, hashseed, request, first, analysis, pc,
                 temp_file, table_info>>

\* process_conflict_resolution, had the preview been written to the stored
\* table
process_conflict_resolution_saving(conflict_rule, sent) ==
  /\ fsm_state = "waiting_conflict_resolution"
  /\ event' = Event("process_conflict_resolution", conflict_rule)
  /\ state_data' = [state_data EXCEPT !.conflict_rule = conflict_rule]
  /\ show_preview_and_confirm(state_data', sent)
  /\ old_df' = result'.df
  /\ table_info' = IF table_info.stored THEN TableInfoOf(result'.df) ELSE table_info
  /\ UNCHANGED <<new_df, hashseed, request, first, analysis, pc, temp_file>>

process_conflict_resolution(conflict_rule, sent) ==
  /\ fsm_state = "waiting_conflict_resolution"
  /\ event' = Event("process_conflict_resolution", conflict_rule)
  /\ state_data' = [state_data EXCEPT !.conflict_rule = conflict_rule]
  /\ show_preview_and_confirm(state_data', sent)
  /\ UNCHANGED <<old_df, new_df, hashseed, request, first, analysis, pc,
                 temp_file, table_info>>

process_update_confirmation(sent) ==
  /\ fsm_state = "waiting_update_confirmation"
  /\ event' = Event("process_update_confirmation", "confirm_update")
  /\ IF table_info.stored
       THEN /\ result' = apply_scenario(state_data.selected_scenario, old_df, new_df,
                                        IF state_data.conflict_rule = "none" THEN "A"
                                        ELSE state_data.conflict_rule,
                                        hashseed)
            /\ old_df' = result'.df
            /\ table_info' = TableInfoOf(result'.df)
            /\ temp_file' = IF sent THEN FALSE ELSE temp_file
       ELSE UNCHANGED <<result, old_df, table_info, temp_file>>
  /\ state_clear
  /\ UNCHANGED <<new_df, hashseed, request, first, pc>>

process_cancel_update ==
  /\ fsm_state \in {"waiting_scenario_selection", "waiting_conflict_resolution",
                    "waiting_update_confirmation"}
  /\ event' = Event("process_cancel_update", "cancel_update")
  /\ temp_file' = IF state_data.temp_file_path # "none" THEN FALSE ELSE temp_file
  /\ state_clear
  /\ UNCHANGED <<old_df, new_df, hashseed, request, result, first, pc, table_info>>

process_change_scenario(sent) ==
  /\ fsm_state = "waiting_update_confirmation"
  /\ event' = Event("process_change_scenario", "change_scenario")
  /\ fsm_state' = IF sent THEN "waiting_scenario_selection" ELSE fsm_state
  /\ UNCHANGED <<old_df, new_df, hashseed, request, result, first, analysis, pc,
                 state_data, temp_file, table_info>>

wrong_update_file_input ==
  /\ fsm_state = "waiting_update_file"
  /\ event' = Event("wrong_update_file_input", "text")
  /\ UNCHANGED <<old_df, new_df, hashseed, request, result, first, analysis, pc,
                 fsm_state, state_data, temp_file, table_info>>

back_handler ==
  /\ event' = Event("back_handler", "back")
  /\ state_clear
  /\ UNCHANGED <<old_df, new_df, hashseed, request, result, first, pc,
                 temp_file, table_info>>

process_delete_callback ==
  /\ event' = Event("process_delete_callback", "delete_t1")
  /\ IF table_info.stored
       THEN old_df' = NoTable /\ table_info' = NoTableInfo
       ELSE UNCHANGED <<old_df, table_info>>
  /\ UNCHANGED <<new_df, hashseed, request, result, first, analysis, pc,
                 fsm_state, state_data, temp_file>>

NextUpdate ==
  \/ process_update_callback
  \/ \E extension_ok \in BOOLEAN, readable \in BOOLEAN, df \in UpdateUploads, sent \in BOOLEAN :
       process_update_file_analysis(extension_ok, readable, df, sent)
  \/ \E scenario \in UpdateScenarios, sent \in BOOLEAN : process_scenario_selection(scenario, sent)
  \/ \E conflict_rule \in UpdateRules, sent \in BOOLEAN : process_conflict_resolution(conflict_rule, sent)
  \/ \E sent \in BOOLEAN : process_update_confirmation(sent)
  \/ process_cancel_update
  \/ \E sent \in BOOLEAN : process_change_scenario(sent)
  \/ wrong_update_file_input
  \/ back_handler
  \/ process_delete_callback

SpecUpdate == InitUpdate /\ [][NextUpdate]_vars

Returned(scenario) == pc = "returned" /\ request.scenario = scenario

KeyShared == KeyCol \in Cols(old_df) /\ KeyCol \in Cols(new_df)

\* the old-table key values / the positions of the new rows holding key k
OldKeys == {old_df.rows[i][KeyCol] : i \in DOMAIN old_df.rows}
NewWithKey(k) == {j \in DOMAIN new_df.rows : new_df.rows[j][KeyCol] = k}

\* every non-null key of the new table is a key of the old table
NewKeysInOld ==
  KeyCol \in Cols(new_df) =>
    \A j \in DOMAIN new_df.rows :
       notna(new_df.rows[j][KeyCol]) =>
         KeyCol \in Cols(old_df) /\ new_df.rows[j][KeyCol] \in OldKeys

\* C1: the table returned by apply_scenario_2 has exactly as many rows as
\* the old table, for every pair of tables and every conflict rule.
C1_RowCount2 ==
  Returned("2") => Len(result.df.rows) = Len(old_df.rows)

\* scenario 2 filled a new column of an old row from a new table that has
\* more rows than the old one
C1_Witness ==
  /\ Returned("2") /\ result.ref = "result_df" /\ KeyShared
  /\ Len(new_df.rows) > Len(old_df.rows)
  /\ \E i \in DOMAIN result.df.rows : \E c \in Cols(new_df) \ Cols(old_df) :
        notna(result.df.rows[i][c])

\* C2: the column set of the table returned by apply_scenario_3 is the union
\* of the old and the new columns on every path, the error path included.
C2_ColumnUnion3 ==
  Returned("3") => Cols(result.df) = Cols(old_df) \cup Cols(new_df)

C4_Resolve1 ==
  (/\ Returned("1") /\ request.conflict_rule \in {"B", "C"}
   /\ result.ref = "result_df"
   /\ {KeyCol, NameCol} \subseteq Cols(old_df) \cap Cols(new_df))
  => \A i \in DOMAIN old_df.rows :
       LET named == {j \in NewWithKey(old_df.rows[i][KeyCol]) : notna(new_df.rows[j][NameCol])}
       IN (notna(old_df.rows[i][KeyCol]) /\ named # {})
            => result.df.rows[i][NameCol] \in {new_df.rows[j][NameCol] : j \in named}

\* C5: under rule A, apply_scenario_3 leaves 'Imya' of every old row that has
\* a matching new row at the old table's value.
C5_KeepOld3 ==
  (/\ Returned("3") /\ request.conflict_rule = "A"
   /\ result.ref = "result_df"
   /\ {KeyCol, NameCol} \subseteq Cols(old_df) \cap Cols(new_df))
  => \A i \in DOMAIN old_df.rows :
       (notna(old_df.rows[i][KeyCol]) /\ NewWithKey(old_df.rows[i][KeyCol]) # {})
         => result.df.rows[i][NameCol] = old_df.rows[i][NameCol]

\* C6: for every scenario 1-4 and every pair of tables, the table and the
\* summary returned under rule B are those returned under rule C.
C6_RuleBIsRuleC ==
  (pc = "returned" /\ request.scenario \in {"1", "2", "3", "4"}
     /\ request.conflict_rule = "B")
  => LET c == apply_scenario(request.scenario, old_df, new_df, "C", hashseed)
     IN result.df = c.df /\ result.message = c.message

\* a call under rule B overwrote the name of an old row
C6_Witness ==
  /\ pc = "returned" /\ request.conflict_rule = "B"
  /\ request.scenario \in {"1", "2", "3", "4"}
  /\ result.ref = "result_df"
  /\ NameCol \in Cols(old_df)
  /\ \E i \in DOMAIN old_df.rows : result.df.rows[i][NameCol] # old_df.rows[i][NameCol]

\* C7: apply_scenario_4 returns the table of scenario 3 when added_columns >= 2
\* and added_rows >= 2, else that of scenario 2 when added_columns >
\* added_rows, else that of scenario 1; exactly one of the three cases holds.
C7_Dispatch4 ==
  (Returned("4") /\ result.message.prefix # "")
  => LET cols == Cardinality(Cols(new_df) \ Cols(old_df))
         rows == added_rows(old_df, new_df)
         full == cols >= 2 /\ rows >= 2
         extend == ~full /\ cols > rows
         append == ~full /\ ~(cols > rows)
         r1 == apply_scenario_1(old_df, new_df, request.conflict_rule, hashseed)
         r2 == apply_scenario_2(old_df, new_df, request.conflict_rule, hashseed)
         r3 == apply_scenario_3(old_df, new_df, request.conflict_rule, hashseed)
     IN /\ full => result.df = r3.df /\ result.message.kind = r3.message.kind
        /\ extend => result.df = r2.df /\ result.message.kind = r2.message.kind
        /\ append => result.df = r1.df /\ result.message.kind = r1.message.kind
        /\ Cardinality({b \in {"full", "extend", "append"} :
                          \/ b = "full" /\ full
                          \/ b = "extend" /\ extend
                          \/ b = "append" /\ append}) = 1

\* scenario 4 chose the full merge and appended rows
C7_Witness ==
  /\ Returned("4") /\ result.message.prefix = "smart_full"
  /\ Len(result.df.rows) > Len(old_df.rows)
  /\ Len(result.df.columns) >= Len(old_df.columns) + 2

\* C8: two calls of apply_scenario('4', ...) on identical inputs return
\* identical tables (columns and rows in the same order) and summaries.
C8_Deterministic4 ==
  (Returned("4") /\ first # NoCall)
  => result.df = first.result.df /\ result.message = first.result.message

\* C9: no call of scenarios 1-4 changes the tables passed in, and the table
\* handed back is never the old table object itself (so a later change of
\* the returned table cannot change old_df).
C9_InputsUntouched ==
  [][/\ old_df' = old_df
     /\ new_df' = new_df
     /\ (pc' = "returned" /\ request'.scenario \in {"1", "2", "3", "4"})
          => result'.ref # "old_df"]_vars

\* C10: apply_scenario_3 appends one row per new-table row whose key does not
\* occur in the old table: |output rows| = |old rows| + |unmatched new rows|.
C10_AppendAll3 ==
  (Returned("3") /\ result.ref = "result_df" /\ KeyShared)
  => Len(result.df.rows) = Len(old_df.rows)
       + Cardinality({j \in DOMAIN new_df.rows :
                        notna(new_df.rows[j][KeyCol]) /\ new_df.rows[j][KeyCol] \notin OldKeys})

\* C11: when 'id' is missing from the old or the new table (or the tables
\* share no column), apply_scenario_3 returns the column union with all old
\* rows followed by all rows of the new table:
\* |output rows| = |old rows| + |new rows|.
C11_Fallback3 ==
  (Returned("3") /\ ~KeyShared)
  => /\ Cols(result.df) = Cols(old_df) \cup Cols(new_df)
     /\ Len(result.df.rows) = Len(old_df.rows) + Len(new_df.rows)
     /\ \A i \in DOMAIN old_df.rows : \A c \in Cols(old_df) :
           result.df.rows[i][c] = old_df.rows[i][c]

NoShared == Cols(old_df) \cap Cols(new_df) = {}

\* C12: when the two tables have no column in common, apply_scenario_1
\* returns the old table with no row appended and the summary 'no common
\* columns', and apply_scenario_2 returns the old rows with every new column
\* added and null in every cell of those columns; neither takes the except
\* branch or reports an error.
C12_NoSharedColumns ==
  (pc = "returned" /\ NoShared)
  => /\ request.scenario = "1" =>
          /\ result.ref = "result_df"
          /\ result.df = old_df
          /\ result.message.kind = "no_common_columns"
     /\ request.scenario = "2" =>
          /\ result.ref = "result_df"
          /\ result.message.kind = "added_columns"
          /\ result.message.n = Cardinality(Cols(new_df))
          /\ Cols(result.df) = Cols(old_df) \cup Cols(new_df)
          /\ Len(result.df.rows) = Len(old_df.rows)
          /\ \A i \in DOMAIN old_df.rows :
                /\ DOMAIN result.df.rows[i] = Cols(old_df) \cup Cols(new_df)
                /\ \A c \in Cols(old_df) : result.df.rows[i][c] = old_df.rows[i][c]
                /\ \A c \in Cols(new_df) : result.df.rows[i][c] = NULL

\* scenario 2 widened a non-empty old table by the columns of a new table
\* that shares no column with it and holds a non-null cell
C12_Witness ==
  /\ Returned("2") /\ NoShared
  /\ old_df.rows # <<>> /\ Cols(new_df) # {}
  /\ \E j \in DOMAIN new_df.rows : \E c \in Cols(new_df) : notna(new_df.rows[j][c])
  /\ Len(result.df.columns) > Len(old_df.columns)

KnownScenarios == {"1", "2", "3", "4"}

\* C13: apply_scenario called with a scenario outside {'1','2','3','4'} runs
\* no merge strategy: it hands back the old table itself, unchanged, and the
\* summary is the unknown-scenario failure carrying the identifier passed in.
C13_UnknownScenario ==
  (pc = "returned" /\ request.scenario \notin KnownScenarios)
  => /\ result.ref = "old_df"
     /\ result.df = old_df
     /\ result.message.kind = "unknown_scenario"
     /\ result.message.arg = request.scenario
     /\ result.message.prefix = ""

\* an unknown scenario was requested on tables that every merge strategy
\* would have answered with a table other than the old one
C13_Witness ==
  /\ pc = "returned" /\ request.scenario \notin KnownScenarios
  /\ \A s \in KnownScenarios :
        LET r == apply_scenario(s, old_df, new_df, request.conflict_rule, hashseed)
        IN r.ref = "result_df" /\ r.df # old_df

KnownRules == {"A", "B", "C"}

\* C14: a call of a scenario 1-4 with a conflict_rule outside {A, B, C}
\* is answered with an explicit failure: it yields no merged table and no
\* success summary.
C14_UnknownRule ==
  (pc = "returned" /\ request.scenario \in KnownScenarios
     /\ request.conflict_rule \notin KnownRules)
  => /\ result.message.kind \notin
          {"added_rows", "no_new_rows", "no_common_columns", "added_columns", "full_merge"}
     /\ result.ref # "result_df"

\* C15: a merge of two tables that share a column but not the key column
\* 'id' (it is missing from the old or from the new table) ends in a failure
\* handed to the caller, never in a table computed without the key.
C15_InvalidKey ==
  (pc = "returned" /\ request.scenario \in KnownScenarios
     /\ ~NoShared /\ ~KeyShared)
  => result.message.kind = "error" /\ result.ref = "old_df"

Analyzed == pc = "analyzed"

\* the report of the call with the two tables exchanged
Swapped == analyze_tables_diff(new_df, old_df, hashseed)

\* C16: for any two tables A and B, the set of columns reported added by
\* analyze_tables_diff(A, B) is the set reported removed by
\* analyze_tables_diff(B, A), and the set reported removed by (A, B) is the
\* set reported added by (B, A).
C16_DiffSymmetry ==
  Analyzed => /\ Range(analysis.columns.added) = Range(Swapped.columns.removed)
              /\ Range(analysis.columns.removed) = Range(Swapped.columns.added)

\* a diff of two tables each holding a column the other lacks
C16_Witness ==
  /\ Analyzed
  /\ analysis.columns.added # <<>> /\ analysis.columns.removed # <<>>

\* C17: in every report, added = new - old, removed = old - new and
\* common = old intersect new as sets; the three are pairwise disjoint,
\* added with common gives the new table's columns and removed with common
\* the old table's, so total_new = |added| + |common| and
\* total_old = |removed| + |common|.
C17_ColumnPartition ==
  Analyzed =>
    LET added == Range(analysis.columns.added)
        removed == Range(analysis.columns.removed)
        common == Range(analysis.columns.common)
    IN /\ added = Cols(new_df) \ Cols(old_df)
       /\ removed = Cols(old_df) \ Cols(new_df)
       /\ common = Cols(old_df) \cap Cols(new_df)
       /\ added \cap removed = {} /\ added \cap common = {} /\ removed \cap common = {}
       /\ added \cup common = Cols(new_df)
       /\ removed \cup common = Cols(old_df)
       /\ analysis.columns.total_new
            = Len(analysis.columns.added) + Len(analysis.columns.common)
       /\ analysis.columns.total_old
            = Len(analysis.columns.removed) + Len(analysis.columns.common)

\* a report in which none of the three column lists is empty
C17_Witness ==
  /\ Analyzed
  /\ analysis.columns.added # <<>>
  /\ analysis.columns.removed # <<>>
  /\ analysis.columns.common # <<>>
  /\ analysis.columns.total_new = 2 /\ analysis.columns.total_old = 2

\* one column ordering for both tables: the old table's order, restricted to
\* the columns the new table has too
CanonicalColumns == SelectSeq(old_df.columns, LAMBDA c : c \in Cols(new_df))

\* the row strings of df taken over the canonical ordering
CanonicalPrints(df) == {SumStr(df, df.rows[i], CanonicalColumns) : i \in DOMAIN df.rows}

\* C18: with every row's fingerprint taken over one canonical column
\* ordering on both sides, rows.added is the number of distinct new-table
\* fingerprints absent from the old table, rows.removed the number of
\* distinct old-table fingerprints absent from the new table, rows.common
\* the size of the intersection; so added + common and removed + common are
\* the numbers of distinct new and old fingerprints.
C18_RowCounts ==
  (Analyzed /\ CanonicalColumns # <<>>)
  => LET old_prints == CanonicalPrints(old_df)
         new_prints == CanonicalPrints(new_df)
     IN /\ analysis.rows.added = Cardinality(new_prints \ old_prints)
        /\ analysis.rows.removed = Cardinality(old_prints \ new_prints)
        /\ analysis.rows.common = Cardinality(old_prints \cap new_prints)
        /\ analysis.rows.added + analysis.rows.common = Cardinality(new_prints)
        /\ analysis.rows.removed + analysis.rows.common = Cardinality(old_prints)

\* the diff of the worked example has been taken
ExampleAnalyzed == Analyzed /\ old_df = ExampleOld /\ new_df = ExampleNew

\* C19 as stated: for old = [id, name] with rows (1,'A'), (2,'B') and
\* new = [id, name, age] with rows (1,'A2',30), (3,'C',40) the report has
\* columns added = [age], removed = [], rows added = 1, removed = 1 and
\* common = 1.
C19_ExampleAsStated ==
  ExampleAnalyzed
  => /\ analysis.columns.added = <<"age">>
     /\ analysis.columns.removed = <<>>
     /\ analysis.rows.added = 1
     /\ analysis.rows.removed = 1
     /\ analysis.rows.common = 1

\* C19 amended: for the same two tables the report has columns added =
\* [age], removed = [], rows added = 2, removed = 2 and common = 0: no row of
\* the one table has the fingerprint of a row of the other.
C19_Example ==
  ExampleAnalyzed
  => /\ analysis.columns.added = <<"age">>
     /\ analysis.columns.removed = <<>>
     /\ analysis.rows.added = 2
     /\ analysis.rows.removed = 2
     /\ analysis.rows.common = 0

\* the worked example was analyzed and its report is a regular one
C19_Witness ==
  /\ ExampleAnalyzed
  /\ analysis.rows.total_old = 2 /\ analysis.rows.total_new = 2
  /\ analysis.columns.common # <<>>

\* the cell of column c at row position p (from 0) differs between the two
\* tables: exactly one side is null, or both are non-null and unequal
CellChanged(p, c) ==
  LET o == old_df.rows[p + 1][c]
      n == new_df.rows[p + 1][c]
  IN \/ (o = NULL) # (n = NULL)
     \/ o # NULL /\ n # NULL /\ o # n

ComparedPositions ==
  0 .. ((IF Len(old_df.rows) < Len(new_df.rows) THEN Len(old_df.rows) ELSE Len(new_df.rows)) - 1)

\* C20: 'changes' holds one entry (row position, column) exactly for each
\* position p < min(|old rows|, |new rows|) and each common column c whose
\* cell is null on exactly one side or non-null and unequal on both; it
\* holds no entry for a later position, for a column that is not common, or
\* for a cell that is null on both sides or equal.
C20_PositionalChanges ==
  Analyzed =>
    LET expected == {e \in ComparedPositions \X (Cols(old_df) \cap Cols(new_df)) :
                       CellChanged(e[1], e[2])}
        reported == {<<analysis.changes[k].row_index, analysis.changes[k].column>> :
                       k \in DOMAIN analysis.changes}
    IN /\ reported = expected
       /\ Len(analysis.changes) = Cardinality(expected)

\* a diff that reported a cell null on one side only, met an equal cell at
\* a compared position, and left a later row and a non-common column out
C20_Witness ==
  /\ Analyzed
  /\ Len(new_df.rows) > Len(old_df.rows)
  /\ Cols(new_df) \ Cols(old_df) # {}
  /\ \E k \in DOMAIN analysis.changes :
        "NULL" \in {analysis.changes[k].old_value, analysis.changes[k].new_value}
  /\ \E p \in ComparedPositions : \E c \in Cols(old_df) \cap Cols(new_df) :
        ~CellChanged(p, c) /\ old_df.rows[p + 1][c] # NULL

EmptyTable(df) == df.columns = <<>> \/ df.rows = <<>>

UnmatchedNewRows ==
  SelectSeq(new_df.rows, LAMBDA r : notna(r[KeyCol]) /\ r[KeyCol] \notin OldKeys)

\* C22: the columns returned by apply_scenario_1 are the old table's columns
\* in the old order; under rule A the first |old| rows are the old rows in
\* order; and the rows after them are exactly the new-table rows whose key
\* is no key of the old table, each once, with the new table's values in the
\* common columns and null in the columns only the old table has.
C22_Structure1 ==
  (Returned("1") /\ result.ref = "result_df" /\ KeyShared)
  => /\ result.df.columns = old_df.columns
     /\ request.conflict_rule = "A" =>
          SubSeq(result.df.rows, 1, Len(old_df.rows)) = old_df.rows
     /\ Len(result.df.rows) = Len(old_df.rows) + Len(UnmatchedNewRows)
     /\ \A k \in DOMAIN UnmatchedNewRows :
           result.df.rows[Len(old_df.rows) + k]
             = [c \in Cols(old_df) |->
                  IF c \in Cols(new_df) THEN UnmatchedNewRows[k][c] ELSE NULL]

\* the positions of the new rows that old row i matches by key
MatchesOf(i) ==
  IF KeyShared /\ notna(old_df.rows[i][KeyCol]) THEN NewWithKey(old_df.rows[i][KeyCol]) ELSE {}

AddedCols == Cols(new_df) \ Cols(old_df)

C24_Overwrite3 ==
  (Returned("3") /\ result.ref = "result_df" /\ KeyShared)
  => \A i \in DOMAIN old_df.rows :
        IF MatchesOf(i) # {}
          THEN \A c \in (Cols(old_df) \cap Cols(new_df)) \ {NameCol} :
                  result.df.rows[i][c] \in {new_df.rows[j][c] : j \in MatchesOf(i)}
          ELSE /\ \A c \in Cols(old_df) : result.df.rows[i][c] = old_df.rows[i][c]
               /\ \A c \in AddedCols : result.df.rows[i][c] = NULL

\* the number of rows apply_scenario_1 appends for the tables of this call
AppendedBy1 ==
  Len(apply_scenario_1(old_df, new_df, request.conflict_rule, hashseed).df.rows)
    - Len(old_df.rows)

\* C25: the added_rows value that apply_scenario_4 feeds its heuristic is
\* the number of rows apply_scenario_1 would append for the same tables,
\* also when several new rows share one unmatched key and when the key
\* column is absent.
C25_AddedRows4 ==
  (Returned("4") /\ result.ref = "result_df")
  => added_rows(old_df, new_df) = AppendedBy1

\* the rows found, cell for cell and under the same column list, in both
\* tables
EqualRows ==
  IF old_df.columns = new_df.columns THEN Range(old_df.rows) \cap Range(new_df.rows) ELSE {}

\* C26: analyze_tables_diff counts an old row and a new row as one common
\* row only when the two rows have the same cells column for column: rows
\* that differ in a cell, or that belong to tables with different column
\* lists, never share a fingerprint.
C26_ExactFingerprints ==
  Analyzed =>
    /\ analysis.rows.common <= Cardinality(EqualRows)
    /\ \A i \in DOMAIN old_df.rows : \A j \in DOMAIN new_df.rows :
          SumStr(old_df, old_df.rows[i], old_df.columns)
              = SumStr(new_df, new_df.rows[j], new_df.columns)
            => old_df.columns = new_df.columns /\ old_df.rows[i] = new_df.rows[j]

HasTextKey(df) == \E i \in DOMAIN df.rows : df.rows[i][KeyCol] < 0

\* the call meets a key that is no integer: scenarios 1, 3 and 4 convert the
\* keys of both tables, scenario 2 those of the old table
StrategyRaises ==
  /\ KeyShared
  /\ \/ HasTextKey(old_df)
     \/ request.scenario \in {"1", "3", "4"} /\ HasTextKey(new_df)

\* C27: a call of a scenario 1-4 that hits an exception inside the strategy
\* returns to its caller: the table handed back is the old table, no row or
\* column added or changed, and the summary is the error message with the
\* error marker first.
C27_ErrorPath ==
  (pc = "returned" /\ request.scenario \in KnownScenarios)
  => /\ StrategyRaises =>
          /\ result.df = old_df
          /\ result.message.kind = "error"
          /\ result.message.prefix = ""
     /\ result.message.kind = "error" =>
          /\ StrategyRaises
          /\ result.df = old_df
          /\ result.message.prefix = ""

\* scenario 4 met a text key in a new table that held rows and columns to
\* merge, and handed back the old table
C27_Witness ==
  /\ Returned("4") /\ StrategyRaises
  /\ ~HasTextKey(old_df) /\ old_df.rows # <<>>
  /\ AddedCols # {}
  /\ \E j \in DOMAIN new_df.rows :
        notna(new_df.rows[j][KeyCol]) /\ new_df.rows[j][KeyCol] > 0
          /\ new_df.rows[j][KeyCol] \notin OldKeys
  /\ result.ref = "old_df"

\* the stored table: the content of its file and its TableInfo
StoredTable == <<old_df, table_info>>

\* C28: in the update conversation a step that changes the stored table file
\* or its TableInfo is a run of process_update_confirmation, taken in state
\* waiting_update_confirmation on 'confirm_update'; every other handler of
\* the conversation (upload, scenario, rule, preview, change of scenario,
\* cancel) leaves the stored table as it was.  Deleting the table is no part
\* of the conversation.
C28_ReplacedOnConfirmation ==
  [][(StoredTable' # StoredTable /\ event'.handler # "process_delete_callback")
       => /\ event' = Event("process_update_confirmation", "confirm_update")
          /\ fsm_state = "waiting_update_confirmation"]_vars

\* a confirmation has replaced a one-row stored table by a two-row table
C28_Witness ==
  /\ event.handler = "process_update_confirmation"
  /\ fsm_state = "none"
  /\ table_info.stored
  /\ table_info.rows_count = 2
  /\ Len(old_df.rows) = 2

\* the conversation has ended in one of the ways the claim lists: the state
\* was cleared by the confirmation, by the cancellation or by a branch of
\* process_update_file_analysis (each of which runs after the temporary
\* file was written)
ConversationEnded ==
  /\ fsm_state = "none"
  /\ event.handler \in {"process_update_confirmation", "process_cancel_update",
                        "process_update_file_analysis"}

\* C29: once the update conversation has ended by confirmation, by
\* cancellation or by an error branch of process_update_file_analysis or
\* process_update_confirmation, its temporary file
\* temp_update_<user>_<name> no longer exists.
C29_TempCleaned == ConversationEnded => ~temp_file

\* C30: the state waiting_update_confirmation is held only with a scenario
\* stored; with scenario 1, 2 or 3 it is entered only from
\* waiting_conflict_resolution, by the handler that stores the rule the user
\* chose; choosing scenario 4 never leads to waiting_conflict_resolution and
\* stores conflict rule A whatever rule the FSM data held before.
C30_ConflictRuleOrdering ==
  [][/\ fsm_state' = "waiting_update_confirmation"
          => state_data'.selected_scenario \in UpdateScenarios
     /\ ( /\ fsm_state # "waiting_update_confirmation"
          /\ fsm_state' = "waiting_update_confirmation"
          /\ state_data'.selected_scenario # "4" )
          => /\ fsm_state = "waiting_conflict_resolution"
             /\ event'.handler = "process_conflict_resolution"
             /\ event'.data \in UpdateRules
             /\ state_data'.conflict_rule = event'.data
     /\ event' = Event("process_scenario_selection", "4")
          => /\ state_data'.selected_scenario = "4"
             /\ state_data'.conflict_rule = "A"
             /\ fsm_state' \in {"waiting_scenario_selection", "waiting_update_confirmation"}
     /\ (fsm_state' = "waiting_update_confirmation" /\ state_data'.selected_scenario = "4")
          => state_data'.conflict_rule = "A"]_vars

\* scenario 4 was chosen and the confirmation is awaited at once, with
\* rule A stored
C30_Witness ==
  /\ fsm_state = "waiting_update_confirmation"
  /\ event = Event("process_scenario_selection", "4")
  /\ state_data.selected_scenario = "4"
  /\ state_data.conflict_rule = "A"

====
